---- MODULE Spec2Model ----
(***************************************************************************)
(* State-machine model of the chess rules engine chess_logic.py            *)
(* (class GameState, dataclass Move) and of the event loop of main.py that *)
(* drives it.                                                              *)
(*                                                                         *)
(* Squares are pairs <<r, c>>, rows and columns 0..7, row 0 = rank 8.      *)
(* A square content is one of the two-character strings of the source      *)
(* ("wK", "bP", ...) or "." for an empty square.  Python's None is the     *)
(* string "None" for a piece or promotion, the empty tuple for a square    *)
(* and reference 0 for a dictionary.                                       *)
(***************************************************************************)
EXTENDS Integers, Sequences, FiniteSets, TLC

VARIABLES gs, selected_sq, legal_moves_cache, move_log

vars == <<gs, selected_sq, legal_moves_cache, move_log>>

----------------------------------------------------------------------------
(* Values *)

None == "None"

NoneSq == <<>>

NoRef == 0

Sides == {"w", "b"}

WhitePieces == {"wP", "wN", "wB", "wR", "wQ", "wK"}

\* p[0] of a two-character piece code
SideOf(p) == IF p \in WhitePieces THEN "w" ELSE "b"

\* p[1] of a two-character piece code
KindOf(p) ==
  CASE p \in {"wP", "bP"} -> "P"
    [] p \in {"wN", "bN"} -> "N"
    [] p \in {"wB", "bB"} -> "B"
    [] p \in {"wR", "bR"} -> "R"
    [] p \in {"wQ", "bQ"} -> "Q"
    [] p \in {"wK", "bK"} -> "K"

\* side + kind, the concatenation of the two characters
PieceCode(side, kind) ==
  IF side = "w"
  THEN CASE kind = "P" -> "wP" [] kind = "N" -> "wN" [] kind = "B" -> "wB"
         [] kind = "R" -> "wR" [] kind = "Q" -> "wQ" [] kind = "K" -> "wK"
  ELSE CASE kind = "P" -> "bP" [] kind = "N" -> "bN" [] kind = "B" -> "bB"
         [] kind = "R" -> "bR" [] kind = "Q" -> "bQ" [] kind = "K" -> "bK"

\* str.upper() on a promotion letter
Upper(ch) ==
  CASE ch = "q" -> "Q" [] ch = "r" -> "R" [] ch = "b" -> "B" [] ch = "n" -> "N"

OppSide(side) == IF side = "w" THEN "b" ELSE "w"

Abs(x) == IF x < 0 THEN -x ELSE x

KnightOffsets ==
  << <<-2,-1>>, <<-2,1>>, <<-1,-2>>, <<-1,2>>, <<1,-2>>, <<1,2>>, <<2,-1>>, <<2,1>> >>

DiagonalDirs == << <<-1,-1>>, <<-1,1>>, <<1,-1>>, <<1,1>> >>

OrthogonalDirs == << <<-1,0>>, <<1,0>>, <<0,-1>>, <<0,1>> >>

KingOffsets ==
  << <<-1,-1>>, <<-1,0>>, <<-1,1>>, <<0,-1>>, <<0,1>>, <<1,-1>>, <<1,0>>, <<1,1>> >>

----------------------------------------------------------------------------
(* Attack oracle *)

in_bounds(r, c) == 0 <= r /\ r < 8 /\ 0 <= c /\ c < 8

\* The row offset, from the queried square, of the squares inspected for a
\* pawn of attacker_side.
PawnSourceOffset(attacker_side) == IF attacker_side = "w" THEN -1 ELSE 1

\* One ray walk of square_attacked_by: the first occupied square decides.
RECURSIVE RayAttacked(_, _, _, _, _, _, _)
RayAttacked(board, rr, cc, dr, dc, attacker_side, kinds) ==
  IF ~in_bounds(rr, cc) THEN FALSE
  ELSE LET p == board[rr][cc] IN
       IF p # "."
       THEN SideOf(p) = attacker_side /\ KindOf(p) \in kinds
       ELSE RayAttacked(board, rr + dr, cc + dc, dr, dc, attacker_side, kinds)

square_attacked_by(board, r, c, attacker_side) ==
  LET pr == PawnSourceOffset(attacker_side) IN
  \/ \E dc \in {-1, 1} :
        /\ in_bounds(r + pr, c + dc)
        /\ board[r + pr][c + dc] = PieceCode(attacker_side, "P")
  \/ \E i \in 1..8 :
        LET rr == r + KnightOffsets[i][1]
            cc == c + KnightOffsets[i][2] IN
        in_bounds(rr, cc) /\ board[rr][cc] = PieceCode(attacker_side, "N")
  \/ \E i \in 1..4 :
        RayAttacked(board, r + DiagonalDirs[i][1], c + DiagonalDirs[i][2],
                    DiagonalDirs[i][1], DiagonalDirs[i][2], attacker_side, {"B", "Q"})
  \/ \E i \in 1..4 :
        RayAttacked(board, r + OrthogonalDirs[i][1], c + OrthogonalDirs[i][2],
                    OrthogonalDirs[i][1], OrthogonalDirs[i][2], attacker_side, {"R", "Q"})
  \/ \E i \in 1..8 :
        LET rr == r + KingOffsets[i][1]
            cc == c + KingOffsets[i][2] IN
        in_bounds(rr, cc) /\ board[rr][cc] = PieceCode(attacker_side, "K")

\* Row-major scan for side's king; <<-1, -1>> when there is none.
locate_king(board, side) ==
  LET target == PieceCode(side, "K")
      found == {i \in 0..63 : board[i \div 8][i % 8] = target} IN
  IF found = {} THEN <<-1, -1>>
  ELSE LET i == CHOOSE x \in found : \A y \in found : x <= y IN <<i \div 8, i % 8>>

in_check(board, white_side_turn) ==
  LET side == IF white_side_turn THEN "w" ELSE "b"
      k == locate_king(board, side) IN
  square_attacked_by(board, k[1], k[2], OppSide(side))

\* How a call of in_check ends.  No statement of it raises: locate_king
\* returns (-1, -1) for a missing king, and square_attacked_by reads only
\* the squares in_bounds admits, so the call returns a boolean on every
\* board of 8 rows of 8 squares.
in_check_outcome(board, white_side_turn) ==
  [raised |-> None, value |-> in_check(board, white_side_turn)]

----------------------------------------------------------------------------
(* Move objects and the pseudo-legal generator *)

\* Move(start, end, piece) with the dataclass defaults
Move(start, end, piece) ==
  [start |-> start, end |-> end, piece |-> piece, captured |-> None,
   promotion |-> None, is_en_passant |-> FALSE, is_castle |-> FALSE,
   prev_castling |-> NoRef, prev_en_passant |-> NoneSq,
   prev_halfmove |-> 0, prev_fullmove |-> 1]

\* The live castling-rights dictionary: the object gs.castling_rights refers to.
Rights(g) == g.dicts[g.castling_rights]

RECURSIVE Flatten(_)
Flatten(ss) == IF ss = <<>> THEN <<>> ELSE Head(ss) \o Flatten(Tail(ss))

ForwardOf(side) == IF side = "w" THEN -1 ELSE 1

\* StartRankOf naming the back ranks
StartRankOf_BackRank(side) == IF side = "w" THEN 7 ELSE 0

StartRankOf(side) == IF side = "w" THEN 6 ELSE 1

\* IsFarRank that never holds
IsFarRank_Never(rr, side) == FALSE

\* (rr == 0 and side == "w") or (rr == 7 and side == "b")
IsFarRank(rr, side) == (rr = 0 /\ side = "w") \/ (rr = 7 /\ side = "b")

PawnMoves(g, side, r, c) ==
  LET board == g.board
      p == board[r][c]
      forward == ForwardOf(side)
      opp == OppSide(side)
      rr == r + forward
      push ==
        IF in_bounds(rr, c) /\ board[rr][c] = "."
        THEN << [Move(<<r, c>>, <<rr, c>>, p) EXCEPT
                   !.promotion = IF IsFarRank(rr, side) THEN "q" ELSE None] >>
             \o (IF r = StartRankOf(side) /\ board[r + 2 * forward][c] = "."
                 THEN << Move(<<r, c>>, <<r + 2 * forward, c>>, p) >>
                 ELSE <<>>)
        ELSE <<>>
      capture(dc) ==
        LET cc == c + dc IN
        IF in_bounds(rr, cc) /\ board[rr][cc] # "." /\ SideOf(board[rr][cc]) = opp
        THEN << [Move(<<r, c>>, <<rr, cc>>, p) EXCEPT
                   !.captured = board[rr][cc],
                   !.promotion = IF IsFarRank(rr, side) THEN "q" ELSE None] >>
        ELSE <<>>
      enp ==
        IF g.en_passant # NoneSq
           /\ r + forward = g.en_passant[1]
           /\ Abs(c - g.en_passant[2]) = 1
        THEN << [Move(<<r, c>>, g.en_passant, p) EXCEPT
                   !.captured = PieceCode(opp, "P"), !.is_en_passant = TRUE] >>
        ELSE <<>>
  IN push \o capture(-1) \o capture(1) \o enp

\* A step onto an empty or enemy-occupied square (knight jump, king step)
StepMove(board, r, c, rr, cc, opp) ==
  IF ~in_bounds(rr, cc) THEN <<>>
  ELSE LET target == board[rr][cc] IN
       IF target = "." \/ SideOf(target) = opp
       THEN << [Move(<<r, c>>, <<rr, cc>>, board[r][c]) EXCEPT
                  !.captured = IF target # "." THEN target ELSE None] >>
       ELSE <<>>

KnightMoves(g, side, r, c) ==
  Flatten([i \in 1..8 |->
    StepMove(g.board, r, c, r + KnightOffsets[i][1], c + KnightOffsets[i][2],
             OppSide(side))])

RECURSIVE RayMoves(_, _, _, _, _, _, _, _)
RayMoves(board, r, c, rr, cc, dr, dc, opp) ==
  IF ~in_bounds(rr, cc) THEN <<>>
  ELSE LET target == board[rr][cc] IN
       IF target = "."
       THEN << Move(<<r, c>>, <<rr, cc>>, board[r][c]) >>
            \o RayMoves(board, r, c, rr + dr, cc + dc, dr, dc, opp)
       ELSE IF SideOf(target) = opp
            THEN << [Move(<<r, c>>, <<rr, cc>>, board[r][c]) EXCEPT
                       !.captured = target] >>
            ELSE <<>>

SliderMoves(g, side, r, c) ==
  LET kind == KindOf(g.board[r][c])
      dirs == (IF kind \in {"B", "Q"} THEN DiagonalDirs ELSE <<>>)
              \o (IF kind \in {"R", "Q"} THEN OrthogonalDirs ELSE <<>>) IN
  Flatten([i \in 1..Len(dirs) |->
    RayMoves(g.board, r, c, r + dirs[i][1], c + dirs[i][2],
             dirs[i][1], dirs[i][2], OppSide(side))])

\* The castling test of one side and direction: the right, the empty squares
\* between king and rook, and the three squares of the king's walk.
CastleMove(g, side, row, right, empty_cols, walk_cols, dest_col) ==
  LET opp == OppSide(side) IN
  IF /\ Rights(g)[right]
     /\ \A cc \in empty_cols : g.board[row][cc] = "."
     /\ \A cc \in walk_cols : ~square_attacked_by(g.board, row, cc, opp)
  THEN << [Move(<<row, 4>>, <<row, dest_col>>, g.board[row][4]) EXCEPT
             !.is_castle = TRUE] >>
  ELSE <<>>

KingMoves(g, side, r, c) ==
  Flatten([i \in 1..8 |->
    StepMove(g.board, r, c, r + KingOffsets[i][1], c + KingOffsets[i][2],
             OppSide(side))])
  \o (IF side = "w" /\ r = 7 /\ c = 4
      THEN CastleMove(g, "w", 7, "wK", {5, 6}, {4, 5, 6}, 6)
           \o CastleMove(g, "w", 7, "wQ", {1, 2, 3}, {4, 3, 2}, 2)
      ELSE <<>>)
  \o (IF side = "b" /\ r = 0 /\ c = 4
      THEN CastleMove(g, "b", 0, "bK", {5, 6}, {4, 5, 6}, 6)
           \o CastleMove(g, "b", 0, "bQ", {1, 2, 3}, {4, 3, 2}, 2)
      ELSE <<>>)

PieceMoves(g, side, r, c) ==
  LET p == g.board[r][c] IN
  IF p = "." \/ SideOf(p) # side THEN <<>>
  ELSE CASE KindOf(p) = "P" -> PawnMoves(g, side, r, c)
         [] KindOf(p) = "N" -> KnightMoves(g, side, r, c)
         [] KindOf(p) \in {"B", "R", "Q"} -> SliderMoves(g, side, r, c)
         [] KindOf(p) = "K" -> KingMoves(g, side, r, c)

generate_pseudo_legal(g, side) ==
  Flatten([i \in 1..64 |-> PieceMoves(g, side, (i - 1) \div 8, (i - 1) % 8)])

----------------------------------------------------------------------------
(* Mutator: make_move and undo_move.  Both return the new GameState g and  *)
(* the Move object mv, which make_move writes to.  g.dicts is the store of *)
(* castling-rights dictionaries; g.castling_rights and mv.prev_castling    *)
(* are references into it, so that two names of one dictionary see each    *)
(* other's writes.                                                         *)

\* dict.copy(): a new dictionary with the same items
CopyDict(dicts, ref) == Append(dicts, dicts[ref])

\* Snapshot without the copy: the move keeps the live dictionary itself
Snapshot_Alias(g, mv) ==
  [g |-> g,
   mv |-> [mv EXCEPT !.prev_castling = g.castling_rights,
                     !.prev_en_passant = g.en_passant,
                     !.prev_halfmove = g.halfmove_clock,
                     !.prev_fullmove = g.fullmove_number]]

\* Snapshot that leaves the en-passant target out
Snapshot_NoEnPassant(g, mv) ==
  [g |-> [g EXCEPT !.dicts = CopyDict(g.dicts, g.castling_rights)],
   mv |-> [mv EXCEPT !.prev_castling = Len(g.dicts) + 1,
                     !.prev_halfmove = g.halfmove_clock,
                     !.prev_fullmove = g.fullmove_number]]

\* The snapshot make_move stores in the move
Snapshot(g, mv) ==
  [g |-> [g EXCEPT !.dicts = CopyDict(g.dicts, g.castling_rights)],
   mv |-> [mv EXCEPT !.prev_castling = Len(g.dicts) + 1,
                     !.prev_en_passant = g.en_passant,
                     !.prev_halfmove = g.halfmove_clock,
                     !.prev_fullmove = g.fullmove_number]]

\* CastleRook that leaves the rook on its corner as well
CastleRook_KeepsCorner(board, er, ec) ==
  CASE er = 7 /\ ec = 6 -> [board EXCEPT ![7][5] = "wR"]
    [] er = 7 /\ ec = 2 -> [board EXCEPT ![7][3] = "wR"]
    [] er = 0 /\ ec = 6 -> [board EXCEPT ![0][5] = "bR"]
    [] er = 0 /\ ec = 2 -> [board EXCEPT ![0][3] = "bR"]
    [] OTHER -> board

\* The rook relocation of a castling move, keyed on the king's destination
CastleRook(board, er, ec) ==
  CASE er = 7 /\ ec = 6 -> [board EXCEPT ![7][5] = "wR", ![7][7] = "."]
    [] er = 7 /\ ec = 2 -> [board EXCEPT ![7][3] = "wR", ![7][0] = "."]
    [] er = 0 /\ ec = 6 -> [board EXCEPT ![0][5] = "bR", ![0][7] = "."]
    [] er = 0 /\ ec = 2 -> [board EXCEPT ![0][3] = "bR", ![0][0] = "."]
    [] OTHER -> board

\* UpdateRights without the test of a rook taken on its home corner
UpdateRights_IgnoresCapture(cr, piece, target, sr, sc, er, ec) ==
  [cr EXCEPT
     !["wK"] = @ /\ piece # "wK" /\ ~(piece = "wR" /\ sr = 7 /\ sc = 7),
     !["wQ"] = @ /\ piece # "wK" /\ ~(piece = "wR" /\ sr = 7 /\ sc = 0),
     !["bK"] = @ /\ piece # "bK" /\ ~(piece = "bR" /\ sr = 0 /\ sc = 7),
     !["bQ"] = @ /\ piece # "bK" /\ ~(piece = "bR" /\ sr = 0 /\ sc = 0)]

\* The castling-rights dictionary after a move of `piece` from (sr, sc) onto
\* (er, ec), which held `target`
UpdateRights(cr, piece, target, sr, sc, er, ec) ==
  [cr EXCEPT
     !["wK"] = /\ @
               /\ piece # "wK"
               /\ ~(piece = "wR" /\ sr = 7 /\ sc = 7)
               /\ ~(target = "wR" /\ er = 7 /\ ec = 7),
     !["wQ"] = /\ @
               /\ piece # "wK"
               /\ ~(piece = "wR" /\ sr = 7 /\ sc = 0)
               /\ ~(target = "wR" /\ er = 7 /\ ec = 0),
     !["bK"] = /\ @
               /\ piece # "bK"
               /\ ~(piece = "bR" /\ sr = 0 /\ sc = 7)
               /\ ~(target = "bR" /\ er = 0 /\ ec = 7),
     !["bQ"] = /\ @
               /\ piece # "bK"
               /\ ~(piece = "bR" /\ sr = 0 /\ sc = 0)
               /\ ~(target = "bR" /\ er = 0 /\ ec = 0)]

\* NextEnPassant without the test that the piece is a pawn
NextEnPassant_AnyPiece(piece, sr, er, ec) ==
  IF Abs(er - sr) = 2 THEN <<(sr + er) \div 2, ec>> ELSE NoneSq

\* The en-passant target after a move of `piece` from row sr to (er, ec)
NextEnPassant(piece, sr, er, ec) ==
  IF KindOf(piece) = "P" /\ Abs(er - sr) = 2
  THEN <<(sr + er) \div 2, ec>>
  ELSE NoneSq

\* NextHalfmove that resets on pawn moves only
NextHalfmove_PawnOnly(clock, piece, target) ==
  IF KindOf(piece) = "P" THEN 0 ELSE clock + 1

\* The halfmove clock after a move of `piece` onto a square holding `target`
NextHalfmove(clock, piece, target) ==
  IF KindOf(piece) = "P" \/ target # "." THEN 0 ELSE clock + 1

\* The fullmove number after a move by the side white_to_move says
NextFullmove(number, white_to_move) ==
  IF ~white_to_move THEN number + 1 ELSE number

\* EnPassantRow on the far side of the target
EnPassantRow_Ahead(er, piece) == er + (IF SideOf(piece) = "w" THEN -1 ELSE 1)

\* cap_r: the row of the pawn an en-passant capture onto row er removes
EnPassantRow(er, piece) == er + (IF SideOf(piece) = "w" THEN 1 ELSE -1)

make_move(g0, mv0) ==
  LET snap == Snapshot(g0, mv0)
      g == snap.g
      sr == mv0.start[1]
      sc == mv0.start[2]
      er == mv0.end[1]
      ec == mv0.end[2]
      piece == g.board[sr][sc]
      target == g.board[er][ec]
      cap_r == EnPassantRow(er, piece)
      mv == IF mv0.is_en_passant
            THEN [snap.mv EXCEPT !.captured = g.board[cap_r][ec]]
            ELSE snap.mv
      b1 == IF mv0.is_en_passant
            THEN [g.board EXCEPT ![er][ec] = piece, ![sr][sc] = ".", ![cap_r][ec] = "."]
            ELSE [g.board EXCEPT ![er][ec] = piece, ![sr][sc] = "."]
      b2 == IF mv0.promotion # None
            THEN [b1 EXCEPT ![er][ec] = PieceCode(SideOf(piece), Upper(mv0.promotion))]
            ELSE b1
      b3 == IF mv0.is_castle THEN CastleRook(b2, er, ec) ELSE b2
  IN [g |-> [g EXCEPT
               !.board = b3,
               !.halfmove_clock = NextHalfmove(g.halfmove_clock, piece, target),
               !.fullmove_number = NextFullmove(g.fullmove_number, g.white_to_move),
               !.dicts = [g.dicts EXCEPT ![g.castling_rights] =
                            UpdateRights(@, piece, target, sr, sc, er, ec)],
               !.en_passant = NextEnPassant(piece, sr, er, ec),
               !.white_to_move = ~g.white_to_move],
      mv |-> mv]

\* UncastleRook that puts the rook home but leaves it on the castled square too
UncastleRook_LeavesRook(board, er, ec) ==
  CASE er = 7 /\ ec = 6 -> [board EXCEPT ![7][7] = "wR"]
    [] er = 7 /\ ec = 2 -> [board EXCEPT ![7][0] = "wR"]
    [] er = 0 /\ ec = 6 -> [board EXCEPT ![0][7] = "bR"]
    [] er = 0 /\ ec = 2 -> [board EXCEPT ![0][0] = "bR"]
    [] OTHER -> board

\* The rook relocation undone, keyed on the king's destination
UncastleRook(board, er, ec) ==
  CASE er = 7 /\ ec = 6 -> [board EXCEPT ![7][7] = "wR", ![7][5] = "."]
    [] er = 7 /\ ec = 2 -> [board EXCEPT ![7][0] = "wR", ![7][3] = "."]
    [] er = 0 /\ ec = 6 -> [board EXCEPT ![0][7] = "bR", ![0][5] = "."]
    [] er = 0 /\ ec = 2 -> [board EXCEPT ![0][0] = "bR", ![0][3] = "."]
    [] OTHER -> board

undo_move(g, mv) ==
  LET sr == mv.start[1]
      sc == mv.start[2]
      er == mv.end[1]
      ec == mv.end[2]
      b1 == IF mv.is_castle THEN UncastleRook(g.board, er, ec) ELSE g.board
      b2 == [b1 EXCEPT ![sr][sc] = mv.piece]
      cap_r == EnPassantRow(er, mv.piece)
      b3 == IF mv.is_en_passant
            THEN [b2 EXCEPT ![er][ec] = ".",
                            ![cap_r][ec] = IF SideOf(mv.piece) = "w" THEN "bP" ELSE "wP"]
            ELSE [b2 EXCEPT ![er][ec] = IF mv.captured # None THEN mv.captured ELSE "."]
  IN [g |-> [g EXCEPT
               !.white_to_move = ~g.white_to_move,
               !.board = b3,
               !.castling_rights = mv.prev_castling,
               !.en_passant = mv.prev_en_passant,
               !.halfmove_clock = mv.prev_halfmove,
               !.fullmove_number = mv.prev_fullmove,
               !.checkmate = FALSE,
               !.stalemate = FALSE],
      mv |-> mv]

----------------------------------------------------------------------------
(* Legality filter and terminal detection *)

\* The loop of get_all_legal_moves and get_legal_moves_from: each candidate is
\* applied, the mover's king tested, and the candidate undone, in list order,
\* on the one GameState.
RECURSIVE FilterLegal(_, _, _, _)
FilterLegal(g, moves, i, legal) ==
  IF i > Len(moves) THEN [g |-> g, legal |-> legal]
  ELSE LET made == make_move(g, moves[i])
           undone == undo_move(made.g, made.mv) IN
       IF ~in_check(made.g.board, ~made.g.white_to_move)
       THEN FilterLegal(undone.g, moves, i + 1, Append(legal, undone.mv))
       ELSE FilterLegal(undone.g, moves, i + 1, legal)

\* TerminalFlags without the test for check: an empty list is a checkmate
TerminalFlags_NoCheckTest(g, legal) ==
  IF legal = <<>>
  THEN [g EXCEPT !.checkmate = TRUE]
  ELSE [g EXCEPT !.checkmate = FALSE, !.stalemate = FALSE]

\* The flags get_all_legal_moves leaves, given the list it is about to return
TerminalFlags(g, legal) ==
  IF legal = <<>>
  THEN IF in_check(g.board, g.white_to_move)
       THEN [g EXCEPT !.checkmate = TRUE]
       ELSE [g EXCEPT !.stalemate = TRUE]
  ELSE [g EXCEPT !.checkmate = FALSE, !.stalemate = FALSE]

get_all_legal_moves(g) ==
  LET side == IF g.white_to_move THEN "w" ELSE "b"
      moves == generate_pseudo_legal(g, side)
      f == FilterLegal(g, moves, 1, <<>>) IN
  [g |-> TerminalFlags(f.g, f.legal), legal |-> f.legal]

\* get_legal_moves_from without the selection of the moves that start on pos
get_legal_moves_from_AnyStart(g, pos) ==
  LET side == IF g.white_to_move THEN "w" ELSE "b"
      p == g.board[pos[1]][pos[2]] IN
  IF p = "." \/ SideOf(p) # side THEN [g |-> g, legal |-> <<>>]
  ELSE FilterLegal(g, generate_pseudo_legal(g, side), 1, <<>>)

get_legal_moves_from(g, pos) ==
  LET side == IF g.white_to_move THEN "w" ELSE "b"
      p == g.board[pos[1]][pos[2]] IN
  IF p = "." \/ SideOf(p) # side THEN [g |-> g, legal |-> <<>>]
  ELSE LET Starts(m) == m.start = pos
           moves == SelectSeq(generate_pseudo_legal(g, side), Starts) IN
       FilterLegal(g, moves, 1, <<>>)

----------------------------------------------------------------------------
(* Configuration loader.  A configuration string is the sequence of its    *)
(* characters.                                                             *)

Digits == {"0", "1", "2", "3", "4", "5", "6", "7", "8", "9"}

\* int(ch) for one decimal digit
DigitValue(ch) ==
  CASE ch = "0" -> 0 [] ch = "1" -> 1 [] ch = "2" -> 2 [] ch = "3" -> 3
    [] ch = "4" -> 4 [] ch = "5" -> 5 [] ch = "6" -> 6 [] ch = "7" -> 7
    [] ch = "8" -> 8 [] ch = "9" -> 9

\* int(s) for a string of decimal digits
RECURSIVE IntOf(_)
IntOf(s) ==
  IF s = <<>> THEN 0
  ELSE 10 * IntOf(SubSeq(s, 1, Len(s) - 1)) + DigitValue(s[Len(s)])

\* int(s) does not raise: an optional sign, then one decimal digit or more
IsIntLiteral(s) ==
  LET ds == IF s # <<>> /\ Head(s) \in {"-", "+"} THEN Tail(s) ELSE s IN
  ds # <<>> /\ \A i \in 1..Len(ds) : ds[i] \in Digits

\* int(s) for a string it accepts
PyInt(s) ==
  IF Head(s) = "-" THEN 0 - IntOf(Tail(s))
  ELSE IF Head(s) = "+" THEN IntOf(Tail(s)) ELSE IntOf(s)

\* str.split(sep): the pieces between separators, empty pieces kept
RECURSIVE SplitFrom(_, _, _, _)
SplitFrom(s, sep, i, cur) ==
  IF i > Len(s) THEN <<cur>>
  ELSE IF s[i] = sep
       THEN <<cur>> \o SplitFrom(s, sep, i + 1, <<>>)
       ELSE SplitFrom(s, sep, i + 1, Append(cur, s[i]))

\* str.split(): the pieces between runs of blanks, no empty piece
SplitBlank(s) ==
  LET NonEmpty(f) == f # <<>> IN SelectSeq(SplitFrom(s, " ", 1, <<>>), NonEmpty)

\* side + mapping[ch.lower()] for a piece letter
LetterPiece(ch) ==
  CASE ch = "P" -> "wP" [] ch = "R" -> "wR" [] ch = "N" -> "wN"
    [] ch = "B" -> "wB" [] ch = "Q" -> "wQ" [] ch = "K" -> "wK"
    [] ch = "p" -> "bP" [] ch = "r" -> "bR" [] ch = "n" -> "bN"
    [] ch = "b" -> "bB" [] ch = "q" -> "bQ" [] ch = "k" -> "bK"

\* One row of the piece placement: a digit is that many empty squares
RECURSIVE ExpandRow(_)
ExpandRow(r) ==
  IF r = <<>> THEN <<>>
  ELSE (IF Head(r) \in Digits
        THEN [i \in 1..DigitValue(Head(r)) |-> "."]
        ELSE <<LetterPiece(Head(r))>>)
       \o ExpandRow(Tail(r))

FileLetters == <<"a", "b", "c", "d", "e", "f", "g", "h">>

algebraic_to_pos(s) ==
  LET file == (CHOOSE i \in 1..8 : FileLetters[i] = s[1]) - 1
      rank == 8 - DigitValue(s[2]) IN
  <<rank, file>>

pos_to_algebraic(r, c) == <<FileLetters[c + 1], CHOOSE d \in Digits : DigitValue(d) = 8 - r>>

Contains(s, ch) == \E i \in 1..Len(s) : s[i] = ch

\* The lists of lists self.board, indexed from 0
BoardOf(rows) ==
  [r \in 0..(Len(rows) - 1) |->
     LET row == ExpandRow(rows[r + 1]) IN [c \in 0..(Len(row) - 1) |-> row[c + 1]]]

load_fen(fen) ==
  LET parts == SplitBlank(fen)
      rows == SplitFrom(parts[1], "/", 1, <<>>) IN
  [board |-> BoardOf(rows),
   white_to_move |-> (parts[2] = <<"w">>),
   castling_rights |-> 1,
   dicts |-> << [wK |-> Contains(parts[3], "K"), wQ |-> Contains(parts[3], "Q"),
                 bK |-> Contains(parts[3], "k"), bQ |-> Contains(parts[3], "q")] >>,
   en_passant |-> IF parts[4] = <<"-">> THEN NoneSq ELSE algebraic_to_pos(parts[4]),
   halfmove_clock |-> PyInt(parts[5]),
   fullmove_number |-> PyInt(parts[6]),
   checkmate |-> FALSE,
   stalemate |-> FALSE]

\* The keys of mapping, in both cases
PieceLetters == {"P", "R", "N", "B", "Q", "K", "p", "r", "n", "b", "q", "k"}

\* The first row with a character that is neither a digit nor a key of
\* mapping, where mapping[kind] raises; 0 if there is none
FirstBadRow(rows) ==
  LET bad == {i \in 1..Len(rows) :
                \E j \in 1..Len(rows[i]) : rows[i][j] \notin Digits \cup PieceLetters} IN
  IF bad = {} THEN 0 ELSE CHOOSE i \in bad : \A j \in bad : i <= j

\* The exception algebraic_to_pos raises on an en-passant token, None if it
\* returns
EnPassantError(enp) ==
  IF enp = <<"-">> THEN None
  ELSE IF Len(enp) < 2 THEN "IndexError"
  ELSE IF enp[2] \notin Digits THEN "ValueError"
  ELSE None

\* gs.load_fen(fen) on an existing GameState g: the attributes are assigned
\* one after the other, so an exception leaves those already assigned.
\* `raised` is the exception that reaches the caller, None if the call
\* returns.
load_fen_on(g, fen) ==
  LET parts == SplitBlank(fen) IN
  IF Len(parts) # 6 THEN [g |-> g, raised |-> "ValueError"]
  ELSE
  LET rows == SplitFrom(parts[1], "/", 1, <<>>)
      k == FirstBadRow(rows) IN
  IF k # 0
  THEN [g |-> [g EXCEPT !.board = BoardOf(SubSeq(rows, 1, k - 1))],
        raised |-> "KeyError"]
  ELSE
  LET g1 == [g EXCEPT
               !.board = BoardOf(rows),
               !.white_to_move = (parts[2] = <<"w">>),
               !.dicts = Append(@, [wK |-> Contains(parts[3], "K"),
                                    wQ |-> Contains(parts[3], "Q"),
                                    bK |-> Contains(parts[3], "k"),
                                    bQ |-> Contains(parts[3], "q")]),
               !.castling_rights = Len(g.dicts) + 1] IN
  IF EnPassantError(parts[4]) # None
  THEN [g |-> g1, raised |-> EnPassantError(parts[4])]
  ELSE
  LET g2 == [g1 EXCEPT !.en_passant = IF parts[4] = <<"-">> THEN NoneSq
                                      ELSE algebraic_to_pos(parts[4])] IN
  IF ~IsIntLiteral(parts[5]) THEN [g |-> g2, raised |-> "ValueError"]
  ELSE
  LET g3 == [g2 EXCEPT !.halfmove_clock = PyInt(parts[5])] IN
  IF ~IsIntLiteral(parts[6]) THEN [g |-> g3, raised |-> "ValueError"]
  ELSE [g |-> [g3 EXCEPT !.fullmove_number = PyInt(parts[6]),
                         !.checkmate = FALSE,
                         !.stalemate = FALSE],
        raised |-> None]

START_FEN ==
  << "r","n","b","q","k","b","n","r","/","p","p","p","p","p","p","p","p","/",
     "8","/","8","/","8","/","8","/",
     "P","P","P","P","P","P","P","P","/","R","N","B","Q","K","B","N","R",
     " ","w"," ","K","Q","k","q"," ","-"," ","0"," ","1" >>

----------------------------------------------------------------------------
(* Object store.  Only the dictionaries some name still refers to matter;  *)
(* they are numbered in the order gs, move_log, legal_moves_cache reach    *)
(* them, so that a state does not depend on allocation history.            *)

RefsOf(g, log, cache) ==
  <<g.castling_rights>>
  \o [i \in 1..Len(log) |-> log[i].prev_castling]
  \o [i \in 1..Len(cache) |-> cache[i].prev_castling]

\* The new number of every dictionary of the store, 0 for one no name refers
\* to: one pass over the names, in order
RECURSIVE Renumber(_, _, _, _)
Renumber(refs, i, map, used) ==
  IF i > Len(refs) THEN map
  ELSE IF refs[i] = NoRef \/ map[refs[i]] # 0
       THEN Renumber(refs, i + 1, map, used)
       ELSE Renumber(refs, i + 1, [map EXCEPT ![refs[i]] = used + 1], used + 1)

Collect(g, log, cache) ==
  LET map == Renumber(RefsOf(g, log, cache), 1, [x \in 1..Len(g.dicts) |-> 0], 0)
      kept == {x \in 1..Len(g.dicts) : map[x] # 0}
      NewRef(x) == IF x = NoRef THEN NoRef ELSE map[x]
      Renamed(ms) == [i \in 1..Len(ms) |->
                        [ms[i] EXCEPT !.prev_castling = NewRef(@)]] IN
  [g |-> [g EXCEPT !.castling_rights = NewRef(@),
                   !.dicts = [n \in 1..Cardinality(kept) |->
                                g.dicts[CHOOSE x \in kept : map[x] = n]]],
   log |-> Renamed(log),
   cache |-> Renamed(cache)]

----------------------------------------------------------------------------
(* Inputs.  The user plays the opening moves of one of the games below and *)
(* then at most MaxFree further moves of any kind.                         *)

MaxFree == 0

\* The square with this file letter and rank digit
Sq(file, rank) == algebraic_to_pos(<<file, rank>>)

\* A click pair: press on the first square, release on the second
M(f1, r1, f2, r2) == <<Sq(f1, r1), Sq(f2, r2)>>

FoolsMate ==
  <<
     M("f","2","f","3"), M("e","7","e","5"), M("g","2","g","4"),
     M("d","8","h","4")
  >>

KingHunt ==
  <<
     M("e","2","e","4"), M("d","7","d","5"), M("e","1","e","2"),
     M("d","5","d","4"), M("e","2","e","3"), M("d","4","e","3")
  >>

EnPassantWhite ==
  <<
     M("e","2","e","4"), M("a","7","a","6"), M("e","4","e","5"),
     M("d","7","d","5"), M("e","5","d","6")
  >>

EnPassantBlack ==
  <<
     M("a","2","a","3"), M("e","7","e","5"), M("a","3","a","4"),
     M("e","5","e","4"), M("d","2","d","4"), M("e","4","d","3")
  >>

KingTakenAtHome ==
  <<
     M("a","2","a","3"), M("e","7","e","5"), M("a","3","a","4"),
     M("e","5","e","4"), M("a","4","a","5"), M("e","4","e","3"),
     M("a","5","a","6"), M("e","3","f","2"), M("a","6","b","7"),
     M("f","2","e","1")
  >>

CastleShort ==
  <<
     M("g","1","f","3"), M("g","8","f","6"), M("e","2","e","3"),
     M("e","7","e","6"), M("f","1","e","2"), M("f","8","e","7"),
     M("e","1","g","1"), M("e","8","g","8")
  >>

CastleLong ==
  <<
     M("d","2","d","4"), M("d","7","d","5"), M("b","1","c","3"),
     M("b","8","c","6"), M("c","1","f","4"), M("c","8","f","5"),
     M("d","1","d","2"), M("d","8","d","7"), M("e","1","c","1"),
     M("e","8","c","8")
  >>

CastlePastPawn ==
  <<
     M("g","1","f","3"), M("h","7","h","5"), M("e","2","e","3"),
     M("h","5","h","4"), M("f","1","e","2"), M("h","4","h","3"),
     M("a","2","a","3"), M("h","3","g","2"), M("e","1","g","1")
  >>

PromotePush ==
  <<
     M("h","2","h","4"), M("g","7","g","5"), M("h","4","g","5"),
     M("h","7","h","6"), M("g","5","h","6"), M("f","8","g","7"),
     M("h","6","g","7"), M("g","8","f","6"), M("g","7","g","8")
  >>

PromoteCapture ==
  <<
     M("h","2","h","4"), M("g","7","g","5"), M("h","4","g","5"),
     M("h","7","h","6"), M("g","5","h","6"), M("f","8","g","7"),
     M("h","6","g","7"), M("g","8","f","6"), M("g","7","h","8")
  >>

RookLeavesCorner ==
  <<
     M("a","2","a","4"), M("a","7","a","5"), M("a","1","a","3"),
     M("a","8","a","6")
  >>

Stalemate ==
  <<
     M("e","2","e","3"), M("a","7","a","5"), M("d","1","h","5"),
     M("a","8","a","6"), M("h","5","a","5"), M("h","7","h","5"),
     M("h","2","h","4"), M("a","6","h","6"), M("a","5","c","7"),
     M("f","7","f","6"), M("c","7","d","7"), M("e","8","f","7"),
     M("d","7","b","7"), M("d","8","d","3"), M("b","7","b","8"),
     M("d","3","h","7"), M("b","8","c","8"), M("f","7","g","6"),
     M("c","8","e","6"), M("g","6","g","5"), M("c","2","c","4"),
     M("g","5","g","6"), M("g","1","f","3")
  >>

Games ==
  {FoolsMate, KingHunt, EnPassantWhite, EnPassantBlack, CastleShort, CastleLong,
   CastlePastPawn, PromotePush, PromoteCapture, RookLeavesCorner, Stalemate,
   KingTakenAtHome}


PromotionChoices == {"q", "r", "b", "n"}

Clicks(log) == [i \in 1..Len(log) |-> <<log[i].start, log[i].end>>]

IsPrefix(s, t) == Len(s) <= Len(t) /\ SubSeq(t, 1, Len(s)) = s

OnBook(s) == \E gm \in Games : IsPrefix(s, gm)

\* s is an opening of a game followed by at most MaxFree further moves
Allowed(s) ==
  \E k \in 0..MaxFree : k <= Len(s) /\ OnBook(SubSeq(s, 1, Len(s) - k))

\* some move may still be committed after s
MayContinue(s) ==
  \/ \E gm \in Games : IsPrefix(s, gm) /\ Len(s) < Len(gm)
  \/ \E k \in 0..(MaxFree - 1) : k <= Len(s) /\ OnBook(SubSeq(s, 1, Len(s) - k))

----------------------------------------------------------------------------
(* Configuration strings handed to load_fen *)

\* "rnb1kbnr/pppp1ppp/8/4p3/6Pq/5P2/PPPPP2P/RNBQKBNR w KQkq - 1 3"
ConfigMated ==
  << "r","n","b","1","k","b","n","r","/","p","p","p","p","1","p","p","p",
     "/","8","/","4","p","3","/","6","P","q","/","5","P","2","/","P","P",
     "P","P","P","2","P","/","R","N","B","Q","K","B","N","R"," ","w"," ",
     "K","Q","k","q"," ","-"," ","1"," ","3" >>

\* "rnbqkbnr/pppppppp/8/8/4P3/8/PPPP1PPP/RNBQKBNR b KQkq e3 0 1"
ConfigAfterE4 ==
  << "r","n","b","q","k","b","n","r","/","p","p","p","p","p","p","p","p",
     "/","8","/","8","/","4","P","3","/","8","/","P","P","P","P","1","P",
     "P","P","/","R","N","B","Q","K","B","N","R"," ","b"," ","K","Q","k",
     "q"," ","e","3"," ","0"," ","1" >>

\* "4k3/8/8/8/8/8/8/4K3 w - - 12 40"
ConfigBareKings ==
  << "4","k","3","/","8","/","8","/","8","/","8","/","8","/","8","/","4",
     "K","3"," ","w"," ","-"," ","-"," ","1","2"," ","4","0" >>

\* "4k3/8/8/8/8/8/8/4K3 w - - 12"
ConfigFiveFields ==
  << "4","k","3","/","8","/","8","/","8","/","8","/","8","/","8","/","4",
     "K","3"," ","w"," ","-"," ","-"," ","1","2" >>

\* "4k3/8/8/8/8/8/4K3 w - - 0 1"
ConfigSevenRows ==
  << "4","k","3","/","8","/","8","/","8","/","8","/","8","/","4","K","3",
     " ","w"," ","-"," ","-"," ","0"," ","1" >>

\* "4k3/8/8/8/8/8/8/4K4 b - - 0 1"
ConfigNineSquares ==
  << "4","k","3","/","8","/","8","/","8","/","8","/","8","/","8","/","4",
     "K","4"," ","b"," ","-"," ","-"," ","0"," ","1" >>

\* "rnbqkbnr/pppp1ppp/8/4x3/8/8/PPPPPPPP/RNBQKBNR w KQkq - 0 1"
ConfigUnknownLetter ==
  << "r","n","b","q","k","b","n","r","/","p","p","p","p","1","p","p","p",
     "/","8","/","4","x","3","/","8","/","8","/","P","P","P","P","P","P",
     "P","P","/","R","N","B","Q","K","B","N","R"," ","w"," ","K","Q","k",
     "q"," ","-"," ","0"," ","1" >>

\* "x7/8/8/8/8/8/8/4K3 b - - 0 1"
ConfigUnknownFirst ==
  << "x","7","/","8","/","8","/","8","/","8","/","8","/","8","/","4","K",
     "3"," ","b"," ","-"," ","-"," ","0"," ","1" >>

\* "4k3/8/8/8/8/8/8/4K3 x - - 0 1"
ConfigOtherSide ==
  << "4","k","3","/","8","/","8","/","8","/","8","/","8","/","8","/","4",
     "K","3"," ","x"," ","-"," ","-"," ","0"," ","1" >>

\* "rnbqkbnr/pppppppp/8/8/3P4/8/PPP1PPPP/RNBQKBNR b Kq dx 0 1"
ConfigBadTarget ==
  << "r","n","b","q","k","b","n","r","/","p","p","p","p","p","p","p","p",
     "/","8","/","8","/","3","P","4","/","8","/","P","P","P","1","P","P",
     "P","P","/","R","N","B","Q","K","B","N","R"," ","b"," ","K","q"," ",
     "d","x"," ","0"," ","1" >>

\* "4k3/8/8/8/8/8/8/4K3 b - e 0 1"
ConfigShortTarget ==
  << "4","k","3","/","8","/","8","/","8","/","8","/","8","/","8","/","4",
     "K","3"," ","b"," ","-"," ","e"," ","0"," ","1" >>

\* "4k3/8/8/8/8/8/8/4K3 w - - -1 1"
ConfigNegativeClock ==
  << "4","k","3","/","8","/","8","/","8","/","8","/","8","/","8","/","4",
     "K","3"," ","w"," ","-"," ","-"," ","-","1"," ","1" >>

\* "rnbqkbnr/pppppppp/8/8/4P3/8/PPPP1PPP/RNBQKBNR b KQkq e3 x 7"
ConfigBadClock ==
  << "r","n","b","q","k","b","n","r","/","p","p","p","p","p","p","p","p",
     "/","8","/","8","/","4","P","3","/","8","/","P","P","P","P","1","P",
     "P","P","/","R","N","B","Q","K","B","N","R"," ","b"," ","K","Q","k",
     "q"," ","e","3"," ","x"," ","7" >>

\* "4k3/8/8/8/8/8/8/4K3 b - - 5 x"
ConfigBadNumber ==
  << "4","k","3","/","8","/","8","/","8","/","8","/","8","/","8","/","4",
     "K","3"," ","b"," ","-"," ","-"," ","5"," ","x" >>

\* "4k3/8/8/8/8/8/8/4K3 w - - 0 -3"
ConfigNegativeNumber ==
  << "4","k","3","/","8","/","8","/","8","/","8","/","8","/","8","/","4",
     "K","3"," ","w"," ","-"," ","-"," ","0"," ","-","3" >>

Configs ==
  {START_FEN, ConfigMated, ConfigAfterE4, ConfigBareKings, ConfigFiveFields,
   ConfigSevenRows, ConfigNineSquares, ConfigUnknownLetter,
   ConfigUnknownFirst, ConfigOtherSide, ConfigBadTarget,
   ConfigShortTarget, ConfigNegativeClock, ConfigBadClock,
   ConfigBadNumber, ConfigNegativeNumber}

----------------------------------------------------------------------------
(* The program: main()'s state after line 163 and one action per event     *)
(* handler of its loop, plus a consumer's call of get_all_legal_moves.     *)

Init ==
  /\ gs = load_fen(START_FEN)
  /\ selected_sq = NoneSq
  /\ legal_moves_cache = <<>>
  /\ move_log = <<>>

Terminal == gs.checkmate \/ gs.stalemate

SideToMove == IF gs.white_to_move THEN "w" ELSE "b"

\* MOUSEBUTTONDOWN on square (r, c)
MouseDown(r, c) ==
  /\ ~Terminal
  /\ MayContinue(Clicks(move_log))
  /\ IF gs.board[r][c] # "." /\ SideOf(gs.board[r][c]) = SideToMove
     THEN \E q \in {get_legal_moves_from(gs, <<r, c>>)} :
          \E st \in {Collect(q.g, move_log, q.legal)} :
            /\ selected_sq' = <<r, c>>
            /\ legal_moves_cache' = st.cache
            /\ gs' = st.g
            /\ move_log' = st.log
     ELSE \E st \in {Collect(gs, move_log, <<>>)} :
            /\ selected_sq' = NoneSq
            /\ legal_moves_cache' = <<>>
            /\ gs' = st.g
            /\ move_log' = st.log

\* The first move of the cache that ends on (r, c), as an index; 0 if none
FirstEndingAt(cache, r, c) ==
  LET hits == {i \in 1..Len(cache) : cache[i].end = <<r, c>>} IN
  IF hits = {} THEN 0 ELSE CHOOSE i \in hits : \A j \in hits : i <= j

\* The move MOUSEBUTTONUP commits: the cached move with the prompt's answer
\* written into it when it promotes
Prompted(mv, k) == IF mv.promotion # None THEN [mv EXCEPT !.promotion = k] ELSE mv

\* MOUSEBUTTONUP on square (r, c); k is the answer to the promotion prompt
MouseUp(r, c, k) ==
  /\ ~Terminal
  /\ selected_sq # NoneSq
  /\ \E i \in {FirstEndingAt(legal_moves_cache, r, c)} :
       /\ i # 0
       /\ \E made \in {make_move(gs, Prompted(legal_moves_cache[i], k))} :
          \E st \in {Collect(made.g, Append(move_log, made.mv), <<>>)} :
            /\ Allowed(Clicks(st.log))
            /\ gs' = st.g
            /\ move_log' = st.log
            /\ selected_sq' = NoneSq
            /\ legal_moves_cache' = <<>>

\* KEYDOWN K_u
KeyUndo ==
  /\ move_log # <<>>
  /\ \E undone \in {undo_move(gs, move_log[Len(move_log)])} :
     \E st \in {Collect(undone.g, SubSeq(move_log, 1, Len(move_log) - 1), <<>>)} :
       /\ gs' = st.g
       /\ move_log' = st.log
       /\ selected_sq' = NoneSq
       /\ legal_moves_cache' = <<>>

\* KEYDOWN K_r
KeyRestart ==
  /\ gs' = load_fen(START_FEN)
  /\ selected_sq' = NoneSq
  /\ legal_moves_cache' = <<>>
  /\ move_log' = <<>>

\* A consumer's call gs.get_all_legal_moves()
CallGetAllLegalMoves ==
  /\ \E q \in {get_all_legal_moves(gs)} :
     \E st \in {Collect(q.g, move_log, legal_moves_cache)} :
       /\ gs' = st.g
       /\ move_log' = st.log
       /\ legal_moves_cache' = st.cache
  /\ UNCHANGED selected_sq

\* The board get_all_legal_moves can scan: 8 rows of 8 squares
IsBoard8x8(board) ==
  /\ DOMAIN board = 0..7
  /\ \A r \in 0..7 : DOMAIN board[r] = 0..7

\* A consumer's call gs.load_fen(fen); an exception ends the call and the
\* consumer goes on with the GameState as it is
CallLoadFen(fen) ==
  /\ \E o \in {load_fen_on(gs, fen)} :
     \E st \in {Collect(o.g, move_log, legal_moves_cache)} :
       /\ gs' = st.g
       /\ move_log' = st.log
       /\ legal_moves_cache' = st.cache
  /\ UNCHANGED selected_sq

Next ==
  \/ \E r \in 0..7, c \in 0..7 : MouseDown(r, c)
  \/ \E r \in 0..7, c \in 0..7, k \in PromotionChoices : MouseUp(r, c, k)
  \/ KeyUndo
  \/ KeyRestart
  \/ CallGetAllLegalMoves

Spec == Init /\ [][Next]_vars

\* main() alone: its loop handles the mouse and the keys U and R, and
\* calls get_legal_moves_from, make_move and undo_move only
MainNext ==
  \/ \E r \in 0..7, c \in 0..7 : MouseDown(r, c)
  \/ \E r \in 0..7, c \in 0..7, k \in PromotionChoices : MouseUp(r, c, k)
  \/ KeyUndo
  \/ KeyRestart

MainSpec == Init /\ [][MainNext]_vars

\* A consumer of the engine that loads configurations into the one
\* GameState and asks for the legal moves of the positions it gets
LoadNext ==
  \/ \E fen \in Configs : CallLoadFen(fen)
  \/ IsBoard8x8(gs.board) /\ CallGetAllLegalMoves

LoadSpec == Init /\ [][LoadNext]_vars

----------------------------------------------------------------------------
(* Vocabulary of the properties *)

\* What a caller can observe of a position
Observable(g) ==
  <<g.board, g.white_to_move, Rights(g), g.en_passant,
    g.halfmove_clock, g.fullmove_number>>

\* The choices the promotion prompt offers for a move
ChoicesFor(mv) == IF mv.promotion # None THEN PromotionChoices ELSE {"q"}

\* P(g, mv) for every move mv the engine lists in position g0, by
\* get_all_legal_moves and by get_legal_moves_from of every square, with
\* every promotion kind the caller may write into it; g is the GameState
\* as the query left it.
ForAllListed(g0, P(_, _)) ==
  /\ LET qa == get_all_legal_moves(g0) IN
     \A i \in 1..Len(qa.legal) : \A k \in ChoicesFor(qa.legal[i]) :
        P(qa.g, Prompted(qa.legal[i], k))
  /\ \A r \in 0..7, c \in 0..7 :
     LET qf == get_legal_moves_from(g0, <<r, c>>) IN
     \A i \in 1..Len(qf.legal) : \A k \in ChoicesFor(qf.legal[i]) :
        P(qf.g, Prompted(qf.legal[i], k))

\* Some move the full legal-move list of position g0 holds satisfies P
SomeListed(g0, P(_, _)) ==
  LET qa == get_all_legal_moves(g0) IN
  \E i \in 1..Len(qa.legal) : P(qa.g, qa.legal[i])

Sign(x) == IF x > 0 THEN 1 ELSE IF x < 0 THEN -1 ELSE 0

\* The rules of chess: the piece standing on (ar, ac) attacks (r, c).
\* A pawn attacks the two squares diagonally ahead of it, white toward row 0
\* and black toward row 7.
PieceAttacks(board, ar, ac, r, c) ==
  LET p == board[ar][ac]
      dr == r - ar
      dc == c - ac
      ClearLine ==
        \A n \in 1..7 :
           n < (IF Abs(dr) > Abs(dc) THEN Abs(dr) ELSE Abs(dc))
             => board[ar + n * Sign(dr)][ac + n * Sign(dc)] = "."
      Diagonal == Abs(dr) = Abs(dc) /\ dr # 0
      Straight == (dr = 0) # (dc = 0)
  IN /\ p # "."
     /\ CASE KindOf(p) = "P" ->
               dr = (IF SideOf(p) = "w" THEN -1 ELSE 1) /\ Abs(dc) = 1
          [] KindOf(p) = "N" -> {Abs(dr), Abs(dc)} = {1, 2}
          [] KindOf(p) = "B" -> Diagonal /\ ClearLine
          [] KindOf(p) = "R" -> Straight /\ ClearLine
          [] KindOf(p) = "Q" -> (Diagonal \/ Straight) /\ ClearLine
          [] KindOf(p) = "K" -> Abs(dr) <= 1 /\ Abs(dc) <= 1 /\ <<dr, dc>> # <<0, 0>>

\* The rules of chess: some piece of `side` attacks (r, c)
Attacks(board, r, c, side) ==
  \E ar \in 0..7, ac \in 0..7 :
     /\ board[ar][ac] # "."
     /\ SideOf(board[ar][ac]) = side
     /\ PieceAttacks(board, ar, ac, r, c)

KingSquares(board, side) ==
  {sq \in (0..7) \X (0..7) : board[sq[1]][sq[2]] = PieceCode(side, "K")}

MoverOf(mv) == SideOf(mv.piece)

----------------------------------------------------------------------------
(* C1 *)

RoundTrips(g, mv) ==
  LET made == make_move(g, mv)
      undone == undo_move(made.g, made.mv) IN
  Observable(undone.g) = Observable(g)

\* C1: in every reachable position, make_move of a listed legal move
\* followed immediately by undo_move of it leaves the board, the side to
\* move, the four castling rights, the en-passant target and both counters
\* as they were, whatever the kind of move and the promotion kind chosen.
C1_RoundTrip == ForAllListed(gs, RoundTrips)

PromotesWithCapture(g, mv) ==
  /\ mv.promotion # None
  /\ mv.captured = "bR"
  /\ Observable(make_move(g, mv).g) # Observable(g)
  /\ RoundTrips(g, [mv EXCEPT !.promotion = "n"])

\* A position in which a pawn may capture a rook and promote, and where
\* applying and undoing that move restores the position.
C1_Witness == move_log # <<>> /\ SomeListed(gs, PromotesWithCapture)

----------------------------------------------------------------------------
(* C2 *)

KingSafeAfter(g, mv) ==
  LET after == make_move(g, mv).g.board IN
  \A k \in KingSquares(after, MoverOf(mv)) :
     ~Attacks(after, k[1], k[2], OppSide(MoverOf(mv)))

\* C2: every listed legal move leaves the mover's own king on a square no
\* opposing piece attacks under the rules of chess.
C2_KingSafe == ForAllListed(gs, KingSafeAfter)

----------------------------------------------------------------------------
(* C3 *)

\* C3: square_attacked_by agrees with the attack relation of chess for
\* every square of the board and both sides.
C3_OracleAgrees ==
  \A r \in 0..7, c \in 0..7 : \A side \in Sides :
     square_attacked_by(gs.board, r, c, side) = Attacks(gs.board, r, c, side)

----------------------------------------------------------------------------
(* C4 *)

\* C4: straight after get_all_legal_moves returns, checkmate says that the
\* returned list is empty and the side to move is in check, stalemate that
\* the list is empty and the side is not in check; and the four moves
\* f2-f3, e7-e5, g2-g4, d8-h4 end in checkmate with an empty list.
C4_TerminalFlags ==
  LET q == get_all_legal_moves(gs)
      check == in_check(q.g.board, q.g.white_to_move) IN
  /\ q.g.checkmate = (q.legal = <<>> /\ check)
  /\ q.g.stalemate = (q.legal = <<>> /\ ~check)
  /\ Clicks(move_log) = FoolsMate
       => q.legal = <<>> /\ q.g.checkmate /\ ~q.g.stalemate

\* The call has been made after the four moves and has set checkmate.
C4_Witness ==
  /\ Clicks(move_log) = FoolsMate
  /\ gs.checkmate
  /\ ~gs.stalemate
  /\ gs.white_to_move

\* The call has been made in a position without legal moves and without
\* check, and has set stalemate.
C4_StalemateReached == gs.stalemate /\ ~gs.checkmate /\ Clicks(move_log) = Stalemate

----------------------------------------------------------------------------
(* C5 *)

\* The castling right, the squares between king and rook and the squares of
\* the king's walk, for a castling move
CastleRight(mv) ==
  IF mv.end[2] = 6 THEN (IF MoverOf(mv) = "w" THEN "wK" ELSE "bK")
  ELSE (IF MoverOf(mv) = "w" THEN "wQ" ELSE "bQ")

CastleBetween(mv) == IF mv.end[2] = 6 THEN {5, 6} ELSE {1, 2, 3}

CastleWalk(mv) == IF mv.end[2] = 6 THEN {4, 5, 6} ELSE {2, 3, 4}

CastleAllowed(g, mv) ==
  mv.is_castle =>
    /\ Rights(g)[CastleRight(mv)]
    /\ \A cc \in CastleBetween(mv) : g.board[mv.start[1]][cc] = "."
    /\ \A cc \in CastleWalk(mv) :
          ~Attacks(g.board, mv.start[1], cc, OppSide(MoverOf(mv)))

\* C5: no castling move is generated or listed when its right is gone, a
\* square between king and rook is occupied, or a square of the king's
\* walk is attacked under the rules of chess.
C5_CastlingRefused ==
  /\ \A side \in Sides :
       LET pl == generate_pseudo_legal(gs, side) IN
       \A i \in 1..Len(pl) : CastleAllowed(gs, pl[i])
  /\ ForAllListed(gs, CastleAllowed)

----------------------------------------------------------------------------
(* C6 *)

Last(log) == log[Len(log)]

IsDoubleStep(mv) == KindOf(mv.piece) = "P" /\ Abs(mv.end[1] - mv.start[1]) = 2

\* The square a double-stepping pawn skips: its file, the row between
SkippedSquare(mv) ==
  <<CHOOSE r \in 0..7 : \/ (mv.start[1] < r /\ r < mv.end[1])
                        \/ (mv.end[1] < r /\ r < mv.start[1]),
    mv.start[2]>>

ExpectedEnPassant(mv) == IF IsDoubleStep(mv) THEN SkippedSquare(mv) ELSE NoneSq

EnPassantAfter(g, mv) ==
  LET after == make_move(g, mv).g.en_passant IN
  /\ after = ExpectedEnPassant(mv)
  /\ g.en_passant # NoneSq => after # g.en_passant

\* C6: make_move of a pawn double-step leaves the skipped square as the
\* en-passant target and make_move of any other move leaves none, so the
\* target one move set is gone after the next applied move; after e2-e4
\* the target is (5, 4).
C6_EnPassantOneMove ==
  /\ ForAllListed(gs, EnPassantAfter)
  /\ move_log # <<>> =>
       /\ gs.en_passant = ExpectedEnPassant(Last(move_log))
       /\ Last(move_log).prev_en_passant # NoneSq
            => gs.en_passant # Last(move_log).prev_en_passant
  /\ Clicks(move_log) = << M("e","2","e","4") >> => gs.en_passant = <<5, 4>>

\* Two moves have been applied: a double-step that set a target, then a
\* move that cleared it.
C6_Witness ==
  /\ Len(move_log) >= 2
  /\ IsDoubleStep(move_log[Len(move_log) - 1])
  /\ Last(move_log).prev_en_passant = SkippedSquare(move_log[Len(move_log) - 1])
  /\ gs.en_passant = NoneSq

----------------------------------------------------------------------------
(* C7 *)

\* The move takes a piece: its end square is occupied, or it is en passant
Captures(g, mv) == g.board[mv.end[1]][mv.end[2]] # "." \/ mv.is_en_passant

CountersAfter(g, mv) ==
  LET after == make_move(g, mv).g IN
  /\ after.halfmove_clock =
       IF KindOf(mv.piece) = "P" \/ Captures(g, mv) THEN 0 ELSE g.halfmove_clock + 1
  /\ after.fullmove_number =
       IF MoverOf(mv) = "b" THEN g.fullmove_number + 1 ELSE g.fullmove_number

\* C7: make_move of a listed legal move leaves halfmove_clock 0 when a pawn
\* moves or a piece is taken and one more than before otherwise, and
\* fullmove_number one more than before after black's move and as before
\* after white's.
C7_Counters ==
  /\ ForAllListed(gs, CountersAfter)
  /\ move_log # <<>> =>
       LET last == Last(move_log) IN
       /\ gs.halfmove_clock =
            IF KindOf(last.piece) = "P" \/ last.captured # None
            THEN 0 ELSE last.prev_halfmove + 1
       /\ gs.fullmove_number =
            IF MoverOf(last) = "b" THEN last.prev_fullmove + 1 ELSE last.prev_fullmove

\* Black has just moved a piece that is no pawn and takes nothing, after a
\* white move of that kind: the clock counts both and the move number grew.
C7_Witness ==
  /\ move_log # <<>>
  /\ MoverOf(Last(move_log)) = "b"
  /\ KindOf(Last(move_log).piece) # "P"
  /\ Last(move_log).captured = None
  /\ Last(move_log).prev_halfmove >= 1
  /\ gs.halfmove_clock = Last(move_log).prev_halfmove + 1
  /\ gs.fullmove_number = Last(move_log).prev_fullmove + 1

----------------------------------------------------------------------------
(* C8 *)

RightNames == {"wK", "wQ", "bK", "bQ"}

RightSide(right) == IF right \in {"wK", "wQ"} THEN "w" ELSE "b"

HomeCorner(right) ==
  CASE right = "wK" -> <<7, 7>> [] right = "wQ" -> <<7, 0>>
    [] right = "bK" -> <<0, 7>> [] right = "bQ" -> <<0, 0>>

\* The move ends the right: that side's king moves, its rook leaves the
\* home corner, or an enemy piece takes the rook standing there
Revokes(right, g, mv) ==
  \/ mv.piece = PieceCode(RightSide(right), "K")
  \/ mv.piece = PieceCode(RightSide(right), "R") /\ mv.start = HomeCorner(right)
  \/ /\ mv.end = HomeCorner(right)
     /\ g.board[mv.end[1]][mv.end[2]] = PieceCode(RightSide(right), "R")
     /\ MoverOf(mv) # RightSide(right)

RightsAfter(g, mv) ==
  \A right \in RightNames :
     Rights(make_move(g, mv).g)[right] = (Rights(g)[right] /\ ~Revokes(right, g, mv))

\* The castling rights as committed move i found them
SnapshotOf(i) == gs.dicts[move_log[i].prev_castling]

\* C8: under make_move a castling right that is false stays false, a right
\* turns false exactly when the king moves, the rook leaves its home corner
\* or the rook is taken there, and along the committed moves no right ever
\* comes back.
C8_RightsMonotonic ==
  /\ ForAllListed(gs, RightsAfter)
  /\ \A right \in RightNames :
       /\ \A i \in 1..(Len(move_log) - 1) :
             SnapshotOf(i + 1)[right] => SnapshotOf(i)[right]
       /\ move_log # <<>> => (Rights(gs)[right] => SnapshotOf(Len(move_log))[right])

\* A rook has just been taken on its home corner and the right it carried,
\* true before that move, is false.
C8_Witness ==
  /\ move_log # <<>>
  /\ Last(move_log).end = <<0, 7>>
  /\ Last(move_log).captured = "bR"
  /\ SnapshotOf(Len(move_log)).bK
  /\ ~Rights(gs).bK

----------------------------------------------------------------------------
(* C9 *)

TakesNoKing(g, mv) ==
  LET target == g.board[mv.end[1]][mv.end[2]] IN
  target = "." \/ KindOf(target) # "K"

\* C9: the board always holds exactly one king of each side, and no listed
\* legal move takes a king.
C9_OneKingEach ==
  /\ \A side \in Sides : Cardinality(KingSquares(gs.board, side)) = 1
  /\ ForAllListed(gs, TakesNoKing)

----------------------------------------------------------------------------
(* C10 *)

\* The position after the first k committed moves, applied to a fresh game
RECURSIVE Replayed(_, _)
Replayed(log, k) ==
  IF k = 0 THEN load_fen(START_FEN)
  ELSE make_move(Replayed(log, k - 1), log[k]).g

\* The position after undoing the committed moves after the k-th, last first
RECURSIVE Unwound(_, _, _)
Unwound(g, log, k) ==
  IF k = Len(log) THEN g
  ELSE undo_move(Unwound(g, log, k + 1), log[k + 1]).g

\* C10: whatever queries came between the commits, undoing the committed
\* moves last first gives after each undo the position that was there
\* before that commit, and every committed move still holds the snapshot
\* taken when it was applied.
C10_StackDiscipline ==
  /\ \A k \in 0..Len(move_log) :
        Observable(Unwound(gs, move_log, k)) = Observable(Replayed(move_log, k))
  /\ \A k \in 1..Len(move_log) :
        LET before == Replayed(move_log, k - 1) IN
        /\ SnapshotOf(k) = Rights(before)
        /\ move_log[k].prev_en_passant = before.en_passant
        /\ move_log[k].prev_halfmove = before.halfmove_clock
        /\ move_log[k].prev_fullmove = before.fullmove_number

\* Several moves are committed, the rights have changed on the way, and a
\* query has just left one of its moves' snapshots installed as the live
\* castling-rights dictionary.
C10_Witness ==
  /\ Len(move_log) >= 3
  /\ \E i \in 1..Len(move_log) : SnapshotOf(i) # Rights(gs)
  /\ \E j \in 1..Len(legal_moves_cache) :
        legal_moves_cache[j].prev_castling = gs.castling_rights

----------------------------------------------------------------------------
(* C11 *)

QueriesKeep(g0) ==
  /\ Observable(get_all_legal_moves(g0).g) = Observable(g0)
  /\ \A r \in 0..7, c \in 0..7 :
        Observable(get_legal_moves_from(g0, <<r, c>>).g) = Observable(g0)

\* C11: in every reachable position, get_all_legal_moves and
\* get_legal_moves_from of every square leave the board, the side to move,
\* the four castling rights, the en-passant target and both counters as
\* they were before the call.  (generate_pseudo_legal writes nothing: it
\* is the list it returns.)
C11_QueriesKeepPosition == QueriesKeep(gs)

\* A query has just run, several moves into a game, in a position with an
\* en-passant target and a capture onto it among the moves it tried.
C11_Witness ==
  /\ gs.en_passant # NoneSq
  /\ \E i \in 1..Len(legal_moves_cache) : legal_moves_cache[i].is_en_passant
  /\ Len(move_log) >= 3

----------------------------------------------------------------------------
(* C12 *)

\* What the generator decides of a move: everything but the snapshot
Described(mv) ==
  <<mv.start, mv.end, mv.piece, mv.captured, mv.promotion,
    mv.is_en_passant, mv.is_castle>>

DescribedAll(ms) == [i \in 1..Len(ms) |-> Described(ms[i])]

\* The described moves of a list that start on pos, in the list's order
StartingAt(ds, pos) ==
  LET Starts(d) == d[1] = pos IN SelectSeq(ds, Starts)

FromAgreesWithAll(g) ==
  \A all \in {DescribedAll(get_all_legal_moves(g).legal)} :
  \A r \in 0..7, c \in 0..7 :
  \A from \in {DescribedAll(get_legal_moves_from(g, <<r, c>>).legal)} :
     LET p == g.board[r][c] IN
     /\ (p = "." \/ SideOf(p) # (IF g.white_to_move THEN "w" ELSE "b"))
          => from = <<>>
     /\ from = StartingAt(all, <<r, c>>)

\* C12: in every reachable position, get_legal_moves_from of a square that
\* is empty or holds a piece of the side not to move is the empty list, and
\* of any other square it is the sub-list of get_all_legal_moves of the
\* moves starting there: same moves, same order.
C12_FromIsSublist == FromAgreesWithAll(gs)

\* The side to move is in check and the square just queried has fewer legal
\* moves than pseudo-legal ones, while other squares have legal moves too.
C12_Witness ==
  /\ in_check(gs.board, gs.white_to_move)
  /\ selected_sq # NoneSq
  /\ legal_moves_cache # <<>>
  /\ LET Starts(m) == m.start = selected_sq IN
     Len(legal_moves_cache)
       < Len(SelectSeq(generate_pseudo_legal(gs, SideToMove), Starts))
  /\ Len(legal_moves_cache) < Len(get_all_legal_moves(gs).legal)

----------------------------------------------------------------------------
(* C13 *)

IsStartingPosition(g) == Observable(g) = Observable(load_fen(START_FEN))

\* C13: whenever the position is the standard starting position,
\* get_all_legal_moves returns exactly 20 moves and leaves neither terminal
\* flag set.
C13_TwentyMoves ==
  IsStartingPosition(gs) =>
     LET q == get_all_legal_moves(gs) IN
     /\ Len(q.legal) = 20
     /\ ~q.g.checkmate
     /\ ~q.g.stalemate

\* The starting position with a piece selected: a query has listed the two
\* moves of a pawn, which are among the twenty.
C13_Witness ==
  /\ IsStartingPosition(gs)
  /\ Len(legal_moves_cache) = 2
  /\ KindOf(legal_moves_cache[1].piece) = "P"
  /\ Len(get_all_legal_moves(gs).legal) = 20

----------------------------------------------------------------------------
(* C14 *)

\* The number of squares a row of the piece placement stands for
RECURSIVE RowSquares(_)
RowSquares(row) ==
  IF row = <<>> THEN 0
  ELSE (IF Head(row) \in Digits THEN DigitValue(Head(row)) ELSE 1)
       + RowSquares(Tail(row))

\* The piece placement expands to exactly 8 rows of exactly 8 squares
PlacementFits(placement) ==
  LET rows == SplitFrom(placement, "/", 1, <<>>) IN
  /\ Len(rows) = 8
  /\ \A i \in 1..8 :
        /\ \A j \in 1..Len(rows[i]) : rows[i][j] \in Digits \cup PieceLetters
        /\ RowSquares(rows[i]) = 8

IsNonNegativeInteger(s) == s # <<>> /\ \A i \in 1..Len(s) : s[i] \in Digits

\* A six-field configuration string the contract of load says is malformed
Malformed(fen) ==
  LET parts == SplitBlank(fen) IN
  /\ Len(parts) = 6
  /\ \/ ~PlacementFits(parts[1])
     \/ parts[2] \notin {<<"w">>, <<"b">>}
     \/ ~IsNonNegativeInteger(parts[5])
     \/ ~IsNonNegativeInteger(parts[6])

\* C14: load_fen fails, with the error that stands for MalformedConfig
\* whatever its name, on every configuration string whose piece placement
\* does not expand to 8 rows of 8 squares, whose side-to-move token is
\* neither "w" nor "b", or whose halfmove or fullmove field is not a
\* non-negative integer: no such string is accepted.
C14_MalformedRejected ==
  \A fen \in Configs : Malformed(fen) => load_fen_on(gs, fen).raised # None

----------------------------------------------------------------------------
(* C15 *)

FlagsOf(g) == <<g.checkmate, g.stalemate>>

\* C15: a load_fen that fails leaves the GameState it was called on as it
\* was: board, side to move, castling rights, en-passant target, counters
\* and terminal flags.
C15_NoPartialState ==
  \A fen \in Configs :
     LET o == load_fen_on(gs, fen) IN
     o.raised # None =>
        /\ Observable(o.g) = Observable(gs)
        /\ FlagsOf(o.g) = FlagsOf(gs)

----------------------------------------------------------------------------
(* C16 *)

\* C16: on a board that holds no king of a side, in_check for that side
\* ends with the error KingNotFound and returns no boolean.
C16_KingNotFound ==
  \A side \in Sides :
     KingSquares(gs.board, side) = {}
       => in_check_outcome(gs.board, side = "w").raised = "KingNotFound"

----------------------------------------------------------------------------
(* C17 *)

\* The rules of chess: the row step of a pawn, white toward row 0
PawnStep(side) == IF side = "w" THEN -1 ELSE 1

\* Every move the generator gives the side to move in g satisfies P
ForAllGenerated(g, P(_, _)) ==
  \A pl \in {generate_pseudo_legal(g, IF g.white_to_move THEN "w" ELSE "b")} :
  \A i \in 1..Len(pl) : P(g, pl[i])

EnPassantSound(g, mv) ==
  LET side == IF g.white_to_move THEN "w" ELSE "b"
      pawn == PieceCode(side, "P")
      taken == PieceCode(OppSide(side), "P")
      sr == mv.start[1]
      sc == mv.start[2]
      er == mv.end[1]
      ec == mv.end[2]
      made == make_move(g, mv) IN
  mv.is_en_passant =>
     /\ g.en_passant # NoneSq
     /\ mv.end = g.en_passant
     /\ mv.piece = pawn
     /\ g.board[sr][sc] = pawn
     /\ Abs(sc - ec) = 1
     /\ sr + PawnStep(side) = er
     /\ g.board[er][ec] = "."
     /\ g.board[sr][ec] = taken
     /\ made.mv.captured = taken
     /\ made.g.board = [g.board EXCEPT ![sr][sc] = ".", ![er][ec] = pawn,
                                       ![sr][ec] = "."]

\* C17: in every reachable position an en-passant move is generated only
\* for a pawn of the side to move one row behind the en-passant target on
\* an adjacent file; the target is then empty and the square behind it
\* holds the enemy pawn that made its double step on the move just before;
\* make_move takes exactly that pawn off, records it as captured, and
\* changes no square but start, end and the taken pawn's.
C17_EnPassantCapture ==
  /\ ForAllGenerated(gs, EnPassantSound)
  /\ ForAllListed(gs, EnPassantSound)
  /\ gs.en_passant # NoneSq =>
       /\ move_log # <<>>
       /\ IsDoubleStep(Last(move_log))
       /\ Last(move_log).piece = PieceCode(OppSide(SideToMove), "P")
       /\ Last(move_log).end =
            <<gs.en_passant[1] - PawnStep(SideToMove), gs.en_passant[2]>>

\* Black has just captured en passant: the white pawn that had advanced two
\* rows is gone from the row behind the target.
C17_Witness ==
  /\ Len(move_log) >= 2
  /\ Last(move_log).is_en_passant
  /\ Last(move_log).captured = "wP"
  /\ IsDoubleStep(move_log[Len(move_log) - 1])
  /\ gs.board[move_log[Len(move_log) - 1].end[1]][move_log[Len(move_log) - 1].end[2]] = "."
  /\ gs.board[Last(move_log).end[1]][Last(move_log).end[2]] = "bP"

----------------------------------------------------------------------------
(* C18 *)

\* The rules of chess: the row a pawn of side promotes on
FarRow(side) == IF side = "w" THEN 0 ELSE 7

PromotionSound(g, mv) ==
  LET side == IF g.white_to_move THEN "w" ELSE "b"
      reaches == KindOf(mv.piece) = "P" /\ mv.end[1] = FarRow(side) IN
  /\ (mv.promotion # None) <=> reaches
  /\ reaches =>
       /\ mv.promotion = "q"
       /\ \A k \in PromotionChoices :
          \A made \in {make_move(g, Prompted(mv, k))} :
             /\ made.g.board[mv.end[1]][mv.end[2]] = PieceCode(side, Upper(k))
             /\ LET undone == undo_move(made.g, made.mv).g IN
                /\ undone.board[mv.start[1]][mv.start[2]] = PieceCode(side, "P")
                /\ undone.board = g.board
       /\ make_move(g, mv).g.board[mv.end[1]][mv.end[2]] = PieceCode(side, "Q")

NoPawnOnEndRows(board) ==
  \A r \in {0, 7}, c \in 0..7 : board[r][c] = "." \/ KindOf(board[r][c]) # "P"

\* C18: in every reachable position a generated move carries a promotion,
\* and then 'q', exactly when it is a pawn move onto the far rank (row 0
\* for white, row 7 for black); make_move of it, with the default or with
\* any kind of {q, r, b, n} written into it, leaves a piece of the
\* mover's side and that kind on the destination, and undo_move puts the
\* pawn back on its start square; no pawn ever stands on row 0 or row 7.
C18_Promotion ==
  /\ ForAllGenerated(gs, PromotionSound)
  /\ NoPawnOnEndRows(gs.board)

\* A white pawn has just been promoted to a knight on row 0.
C18_Witness ==
  /\ move_log # <<>>
  /\ Last(move_log).piece = "wP"
  /\ Last(move_log).promotion = "n"
  /\ Last(move_log).end[1] = 0
  /\ gs.board[0][Last(move_log).end[2]] = "wN"

----------------------------------------------------------------------------
(* C19 *)

CastlingRelocates(g, mv) ==
  LET side == IF g.white_to_move THEN "w" ELSE "b"
      row == IF side = "w" THEN 7 ELSE 0
      kingSide == mv.end[2] = 6
      corner == IF kingSide THEN 7 ELSE 0
      passed == IF kingSide THEN 5 ELSE 3
      after == make_move(g, mv).g IN
  mv.is_castle =>
     /\ mv.start = <<row, 4>>
     /\ mv.end \in {<<row, 6>>, <<row, 2>>}
     /\ after.board = [g.board EXCEPT ![row][4] = ".",
                                      ![row][mv.end[2]] = PieceCode(side, "K"),
                                      ![row][passed] = PieceCode(side, "R"),
                                      ![row][corner] = "."]
     /\ g.board[row][corner] = PieceCode(side, "R")
     /\ IF side = "w" THEN ~Rights(after).wK /\ ~Rights(after).wQ
                      ELSE ~Rights(after).bK /\ ~Rights(after).bQ

\* C19: make_move of a generated castling move leaves the king two files
\* from its home square toward the rook, the rook that stood on the corner
\* on the square the king passed over, the king's home square and the
\* corner empty, every other square as it was, and both castling rights
\* of the mover false.
C19_CastlingRelocates == ForAllGenerated(gs, CastlingRelocates)

\* Black has just castled queen-side: king on c8, rook on d8, a8 and e8
\* empty.
C19_Witness ==
  /\ move_log # <<>>
  /\ Last(move_log).is_castle
  /\ Last(move_log).end = <<0, 2>>
  /\ gs.board[0][2] = "bK"
  /\ gs.board[0][3] = "bR"
  /\ gs.board[0][0] = "."
  /\ gs.board[0][4] = "."
  /\ ~Rights(gs).bK
  /\ ~Rights(gs).bQ

----------------------------------------------------------------------------
(* C20 *)

NoLegalMove(g) == get_all_legal_moves(g).legal = <<>>

\* C20: in main()'s event loop, once a committed move has left the side to
\* move without a legal move, gs.checkmate or gs.stalemate is true when the
\* next event is handled, so that the status bar reports the end of the
\* game and clicks on the board are ignored.
C20_TerminalDetected ==
  (move_log # <<>> /\ NoLegalMove(gs)) => Terminal

----------------------------------------------------------------------------
(* C21 *)

\* The home square of the king of a castling right
HomeSquare(right) == IF RightSide(right) = "w" THEN <<7, 4>> ELSE <<0, 4>>

HomePlacement(g) ==
  \A right \in RightNames :
     Rights(g)[right] =>
        /\ g.board[HomeSquare(right)[1]][HomeSquare(right)[2]]
             = PieceCode(RightSide(right), "K")
        /\ g.board[HomeCorner(right)[1]][HomeCorner(right)[2]]
             = PieceCode(RightSide(right), "R")

\* A generated castling move finds its rook on the corner it is taken from
CastlesWithRook(g, mv) ==
  mv.is_castle =>
     g.board[mv.end[1]][IF mv.end[2] = 6 THEN 7 ELSE 0]
       = PieceCode(MoverOf(mv), "R")

\* C21: in every state reached from the starting position by listed moves
\* and undos, a castling right that is true has the king of its side on
\* the home square (e1 or e8) and a rook of its side on the home corner of
\* the right; so no generated castling move moves a rook that is not there.
C21_RightsImplyHome ==
  /\ HomePlacement(gs)
  /\ ForAllGenerated(gs, CastlesWithRook)

----------------------------------------------------------------------------
(* C22 *)

\* C22: get_legal_moves_from of any square leaves checkmate and stalemate
\* as they were; a flag get_all_legal_moves has set in the position is
\* still set afterwards.
C22_FromKeepsFlags ==
  \A r \in 0..7, c \in 0..7 :
     FlagsOf(get_legal_moves_from(gs, <<r, c>>).g) = FlagsOf(gs)

====
